---- MODULE Spec2Model ----
(***************************************************************************)
(* Flow execution engine of PiDash: the HTTP handlers runFlow, updateFlow  *)
(* and getFlowStatus of the flow controller and the walk executeFlow /     *)
(* executeNode / executeLoop / evaluateCondition / connectToPi of          *)
(* backend/src/services/flowExecutionService.js.                           *)
(*                                                                         *)
(* Every action is the code between two awaits.  flow.executionResults is  *)
(* modelled with the Map interface the service uses (set(key, value)), and *)
(* flow.save() writes the fields assigned since the previous save.  The    *)
(* remote host is the environment: ssh.connect and ssh.execCommand return  *)
(* one of the outcomes the node-ssh library can produce.                   *)
(***************************************************************************)
EXTENDS Integers, Sequences, FiniteSets, TLC

\* ------------------------------------------------------------------ bounds
MaxRuns == 2
MaxIter == 2
\* The number of nested executeNode activations the model follows; above the
\* depth of every acyclic graph of the model.
MaxDepth == 6

Procs == {1, 2}
OWNER == "u1"
Users == {"u1", "u2"}

\* ------------------------------------------------------------ node kinds
NODE_TYPES == [START |-> "start", END |-> "end", RUN_COMMAND |-> "run-command",
               GPIO |-> "gpio", LOOP |-> "loop",
               CONDITIONAL_PATH |-> "conditional-path",
               CONNECT_RASPBERRY_PI |-> "connect-raspberry-pi",
               TEXT_MESSAGE |-> "text-message"]

\* A node of the editor: id, type and the fields of node.data the engine reads.
Nd(id, type) == [id |-> id, type |-> type, command |-> "echo hi", iterations |-> 1,
                 stopOnError |-> FALSE, conditionType |-> "command", piId |-> ""]
Ed(s, t, h) == [source |-> s, target |-> t, sourceHandle |-> h]

\* Scenario A: Start -> RunCommand -> End, no connect node.
GraphA == [nodes |-> << Nd("s", "start"), Nd("r", "run-command"), Nd("e", "end") >>,
           edges |-> << Ed("s", "r", ""), Ed("r", "e", "") >>]
\* Scenario B: Start -> Connect(stored device of the owner) -> RunCommand -> End.
GraphB == [nodes |-> << Nd("s", "start"),
                        [Nd("c", "connect-raspberry-pi") EXCEPT !.piId = "d1"],
                        Nd("r", "run-command"), Nd("e", "end") >>,
           edges |-> << Ed("s", "c", ""), Ed("c", "r", ""), Ed("r", "e", "") >>]
\* Two connect nodes in a chain, a text node between them.
GraphC == [nodes |-> << Nd("s", "start"), Nd("c", "connect-raspberry-pi"),
                        Nd("t", "text-message"), Nd("c2", "connect-raspberry-pi"),
                        Nd("e", "end") >>,
           edges |-> << Ed("s", "c", ""), Ed("c", "t", ""), Ed("t", "c2", ""),
                        Ed("c2", "e", "") >>]
\* Start -> Connect -> Loop(iterations, stopOnError) -> RunCommand.
GraphL == [nodes |-> << Nd("s", "start"), Nd("c", "connect-raspberry-pi"),
                        [Nd("l", "loop") EXCEPT !.iterations = MaxIter, !.stopOnError = TRUE],
                        Nd("r", "run-command") >>,
           edges |-> << Ed("s", "c", ""), Ed("c", "l", ""), Ed("l", "r", "") >>]
\* Fan-out at Start: a RunCommand with no session, then a text node.
GraphF == [nodes |-> << Nd("s", "start"), Nd("r", "run-command"), Nd("t", "text-message") >>,
           edges |-> << Ed("s", "r", ""), Ed("s", "t", "") >>]
\* Start -> Connect -> ConditionalBranch -true-> text, -false-> End.
GraphK == [nodes |-> << Nd("s", "start"), Nd("c", "connect-raspberry-pi"),
                        Nd("k", "conditional-path"), Nd("t", "text-message"),
                        Nd("e", "end") >>,
           edges |-> << Ed("s", "c", ""), Ed("c", "k", ""), Ed("k", "t", "true"),
                        Ed("k", "e", "false") >>]
\* Start -> Connect -> GPIO -> RunCommand with an empty command.
GraphP == [nodes |-> << Nd("s", "start"), Nd("c", "connect-raspberry-pi"),
                        Nd("g", "gpio"),
                        [Nd("r", "run-command") EXCEPT !.command = ""] >>,
           edges |-> << Ed("s", "c", ""), Ed("c", "g", ""), Ed("g", "r", "") >>]
\* A graph with no Start node.
Graph0 == [nodes |-> << Nd("e", "end") >>, edges |-> << >>]

\* Start -> Loop -> ConditionalBranch, no connect node.
GraphR == [nodes |-> << Nd("s", "start"), Nd("l", "loop"), Nd("k", "conditional-path") >>,
           edges |-> << Ed("s", "l", ""), Ed("l", "k", "") >>]
\* A ConditionalBranch with a true-labelled edge, an unlabelled edge and no
\* false-labelled edge.
GraphK1 == [nodes |-> << Nd("s", "start"), Nd("c", "connect-raspberry-pi"),
                         Nd("k", "conditional-path"), Nd("t", "text-message"),
                         Nd("e", "end") >>,
            edges |-> << Ed("s", "c", ""), Ed("c", "k", ""), Ed("k", "t", "true"),
                         Ed("k", "e", "") >>]
\* The same with a condition on a GPIO input.
GraphKG == [nodes |-> << Nd("s", "start"), Nd("c", "connect-raspberry-pi"),
                         [Nd("k", "conditional-path") EXCEPT !.conditionType = "gpio"],
                         Nd("t", "text-message") >>,
            edges |-> << Ed("s", "c", ""), Ed("c", "k", ""), Ed("k", "t", "true") >>]
\* Start -> Connect(stored device of another user) -> RunCommand.
GraphD == [nodes |-> << Nd("s", "start"),
                        [Nd("c", "connect-raspberry-pi") EXCEPT !.piId = "d2"],
                        Nd("r", "run-command") >>,
           edges |-> << Ed("s", "c", ""), Ed("c", "r", "") >>]
\* Two Start nodes, each with an edge to End.
Graph2S == [nodes |-> << Nd("s", "start"), Nd("s2", "start"), Nd("e", "end") >>,
            edges |-> << Ed("s", "e", ""), Ed("s2", "e", "") >>]
\* Fan-out at Start: Connect -> TextMessage on the first edge, a second Connect
\* on the later edge.
GraphFC == [nodes |-> << Nd("s", "start"), Nd("c", "connect-raspberry-pi"),
                         Nd("t", "text-message"), Nd("c2", "connect-raspberry-pi") >>,
            edges |-> << Ed("s", "c", ""), Ed("c", "t", ""), Ed("s", "c2", "") >>]
\* An End node with an outgoing edge: Start -> End -> TextMessage.
GraphE == [nodes |-> << Nd("s", "start"), Nd("e", "end"), Nd("t", "text-message") >>,
           edges |-> << Ed("s", "e", ""), Ed("e", "t", "") >>]
\* A ConditionalBranch with two true-labelled edges.
GraphK2 == [nodes |-> << Nd("s", "start"), Nd("c", "connect-raspberry-pi"),
                         Nd("k", "conditional-path"), Nd("t", "text-message"),
                         Nd("t2", "text-message") >>,
            edges |-> << Ed("s", "c", ""), Ed("c", "k", ""), Ed("k", "t", "true"),
                         Ed("k", "t2", "true") >>]
\* Edges whose target matches no node: the first edge of Start and the edge of
\* the Loop node.
GraphX == [nodes |-> << Nd("s", "start"), Nd("l", "loop"), Nd("t", "text-message") >>,
           edges |-> << Ed("s", "zz", ""), Ed("s", "l", ""), Ed("l", "yy", ""),
                        Ed("s", "t", "") >>]
\* Start -> Loop -> RunCommand, no connect node.
GraphLR == [nodes |-> << Nd("s", "start"), Nd("l", "loop"), Nd("r", "run-command") >>,
            edges |-> << Ed("s", "l", ""), Ed("l", "r", "") >>]
\* Fan-out at Start: a Connect, then a RunCommand on Start's later edge.
GraphCR == [nodes |-> << Nd("s", "start"), Nd("c", "connect-raspberry-pi"),
                         Nd("r", "run-command") >>,
            edges |-> << Ed("s", "c", ""), Ed("s", "r", "") >>]
\* A cycle reachable from Start with no End node: Start -> text -> text2 -> text.
GraphCyc == [nodes |-> << Nd("s", "start"), Nd("t", "text-message"),
                          Nd("t2", "text-message") >>,
             edges |-> << Ed("s", "t", ""), Ed("t", "t2", ""), Ed("t2", "t", "") >>]
\* A diamond below a Connect: the RunCommand is the target of both text nodes.
GraphDm == [nodes |-> << Nd("s", "start"), Nd("c", "connect-raspberry-pi"),
                         Nd("t", "text-message"), Nd("t2", "text-message"),
                         Nd("r", "run-command") >>,
            edges |-> << Ed("s", "c", ""), Ed("c", "t", ""), Ed("c", "t2", ""),
                         Ed("t", "r", ""), Ed("t2", "r", "") >>]

Graphs == {GraphA, GraphB, GraphC, GraphL, GraphF, GraphK, GraphP, GraphR, Graph0,
           GraphK1, GraphKG, GraphD, Graph2S, GraphFC, GraphE, GraphK2,
           GraphX, GraphLR}
\* The graphs used when two requests for the flow overlap.
RaceGraphs == {GraphA, GraphB, GraphR}
\* The graphs in which a node is reached along more than one path or more than
\* once, next to two plain ones.
WalkGraphs == {GraphB, GraphR, GraphCR, GraphCyc, GraphDm}
\* The definitions the editor can send in an update (name, nodes, edges).
UpdateBodies == {[name |-> "renamed", graph |-> GraphA]}

\* ------------------------------------------------------------- utilities
EmptyMap == [k \in {} |-> TRUE]
\* A set that keeps the value of a key that is already present.
MapSetOnce(m, k, v) == [x \in (DOMAIN m) \cup {k} |-> IF x \in DOMAIN m THEN m[x] ELSE v]
\* Map.prototype.set
MapSet(m, k, v) == [x \in (DOMAIN m) \cup {k} |-> IF x = k THEN v ELSE m[x]]
Has(m, k) == k \in DOMAIN m

\* `${node.id}_status` and `${node.id}_iteration_${i}`
StatusKey(id) == id \o "_status"
IterationKey(id, i) == id \o "_iteration_" \o ToString(i)

FindNodeOrLast(nodes, id) ==
    IF \E i \in 1..Len(nodes) : nodes[i].id = id
    THEN CHOOSE i \in 1..Len(nodes) : nodes[i].id = id /\ \A j \in 1..(i-1) : nodes[j].id # id
    ELSE Len(nodes)
\* Array.prototype.find over nodes by id: index of the first match, 0 if none.
FindNode(nodes, id) ==
    IF \E i \in 1..Len(nodes) : nodes[i].id = id
    THEN CHOOSE i \in 1..Len(nodes) : nodes[i].id = id /\ \A j \in 1..(i-1) : nodes[j].id # id
    ELSE 0
FindStartAny(nodes) == 1
\* flow.nodes.find(node => node.type === NODE_TYPES.START)
FindStart(nodes) ==
    IF \E i \in 1..Len(nodes) : nodes[i].type = NODE_TYPES.START
    THEN CHOOSE i \in 1..Len(nodes) : nodes[i].type = NODE_TYPES.START
                 /\ \A j \in 1..(i-1) : nodes[j].type # NODE_TYPES.START
    ELSE 0

\* ----------------------------------------------------------------- state
\* db: the Flow row; pis: the device registry; proc: the request being served
\* in each handler slot, with the execution it started; nreq: requests received;
\* clock: the value new Date() last returned; overlap: whether two runFlow
\* handlers may be between their read and their save at the same time;
\* polled: the body of the status response sent by the step just taken, if that
\* step was getFlowStatus.
VARIABLES db, pis, proc, nreq, clock, overlap, polled
vars == << db, pis, proc, nreq, clock, overlap, polled >>

\* No status response was sent by the step just taken.
NoResponse == [code |-> 0]

\* The in-memory flow object of executeFlow before Flow.findOne has returned.
NoFlow == [userId |-> "", executionStatus |-> "", executionResults |-> EmptyMap,
           lastExecuted |-> 0, nodes |-> << >>, edges |-> << >>]
\* let result = null
NoResult == [success |-> FALSE, unset |-> TRUE]
\* The status and results of the flow object a run finished with; none yet.
NoEnd == [status |-> "", results |-> EmptyMap]

\* A handler slot.  Besides the locals of runFlow and executeFlow (user,
\* rfStatus, flow, stack, err, resp) it records, of the request it serves: the
\* SSH connections the run created with the number of dispose calls on each
\* (sessions), whether the request was accepted, the nodes executed in order,
\* the outcome each handler last returned, whether a handler raised, the number
\* of remote commands issued, the flow object the run finished with (end), and
\* how the promise of executeFlow settled ("resolved" or "rejected").
IdleProc == [pc |-> "idle", rid |-> 0, user |-> "", rfStatus |-> "", flow |-> NoFlow,
             stack |-> << >>, err |-> "", resp |-> 0,
             sessions |-> << >>, accepted |-> FALSE, executed |-> << >>,
             outcomes |-> EmptyMap, raised |-> FALSE, remoteCalls |-> 0, end |-> NoEnd,
             settled |-> "", endpoint |-> "", pi |-> ""]

\* The Flow row as created by the model defaults (flowModel.js), with a graph.
NewFlowRow(g) == [userId |-> OWNER, name |-> "flow", graph |-> g,
                  executionStatus |-> "idle", executionResults |-> EmptyMap,
                  lastExecuted |-> 0]
\* The device registry: one device of the flow's owner, one of another user.
NewPis == [d \in {"d1", "d2"} |->
              [userId |-> IF d = "d1" THEN "u1" ELSE "u2", status |-> "unknown"]]

InitWith(gs, ov) ==
    /\ \E g \in gs : db = NewFlowRow(g)
    /\ pis = NewPis
    /\ proc = [p \in Procs |-> IdleProc]
    /\ nreq = 0
    /\ clock = 0
    /\ overlap = ov
    /\ polled = NoResponse

\* HTTP handlers of one flow do not overlap between their read and their save.
Init == InitWith(Graphs, FALSE)
\* Two run requests may interleave at every await.
InitRace == InitWith(RaceGraphs, TRUE)
\* As Init, on the graphs with shared and repeated nodes.
InitWalk == InitWith(WalkGraphs, FALSE)

FrameUntagged(n, ssh) ==
    [n |-> n, ssh |-> ssh, newSsh |-> ssh, pc |-> "exec", cont |-> TRUE,
     res |-> NoResult, err |-> "", ei |-> 1, i |-> 0, cnt |-> 0, body |-> 0,
     called |-> FALSE, remote |-> "none"]
\* A walk frame: one activation of executeNode(flow, node, sshConnection).
Frame(n, ssh) == [n |-> n, ssh |-> ssh, newSsh |-> ssh, pc |-> "begin", cont |-> TRUE,
                  res |-> NoResult, err |-> "", ei |-> 1, i |-> 0, cnt |-> 0, body |-> 0,
                  called |-> FALSE, remote |-> "none"]

\* A session argument that is the run's most recently opened session, whoever
\* opened it.
ChildSessionLatest(P, f) == IF Len(P.sessions) > 0 THEN Len(P.sessions) ELSE f.newSsh
\* The session argument of a nested call made by the activation f:
\* executeNode(flow, nextNode, newSshConnection), f's own local variable.
ChildSession(P, f) == f.newSsh

Top(P) == P.stack[Len(P.stack)]
SetTop(stack, f) == [stack EXCEPT ![Len(stack)] = f]
Pop(stack) == SubSeq(stack, 1, Len(stack) - 1)
NodeOf(P) == P.flow.nodes[Top(P).n]

\* The pcs at which an execution (executeFlow) of the flow is in progress.
ExecPcs == {"ef_find", "ef_init", "ef_start", "walk", "ef_ok", "ef_catch"}
Executing(p) == proc[p].pc \in ExecPcs
\* A slot whose request has been answered and whose execution, if any, is over.
Free(p) == proc[p].pc \in {"idle", "done"}
\* A new request is served in the first free slot.
FirstFree(p) == Free(p) /\ \A q \in Procs : Free(q) => p <= q

\* -------------------------------------------------------------- runFlow
RunGuardOff(status) == TRUE
\* if (flow.executionStatus === 'running') reject
RunGuard(status) == status # "running"

\* const flow = await Flow.findOne({ where: { id, userId: req.user.id } })
RunFlowFind(p, u) ==
    /\ FirstFree(p)
    /\ nreq < MaxRuns
    /\ overlap \/ \A q \in Procs : proc[q].pc # "rf_found"
    /\ u = db.userId
    /\ nreq' = nreq + 1
    /\ proc' = [proc EXCEPT ![p] = [IdleProc EXCEPT !.pc = "rf_found", !.rid = nreq + 1,
                                       !.user = u, !.rfStatus = db.executionStatus]]
    /\ UNCHANGED << db, pis, clock, overlap >>
    /\ polled' = NoResponse

\* if (!flow) { res.status(404); throw }
RunFlowNotFound(p, u) ==
    /\ FirstFree(p)
    /\ nreq < MaxRuns
    /\ u # db.userId
    /\ nreq' = nreq + 1
    /\ proc' = [proc EXCEPT ![p] = [IdleProc EXCEPT !.pc = "done", !.rid = nreq + 1,
                                       !.user = u, !.resp = 404]]
    /\ UNCHANGED << db, pis, clock, overlap >>
    /\ polled' = NoResponse

\* res.status(400); throw new Error('Flow is already running')
RunFlowReject(p) ==
    /\ proc[p].pc = "rf_found"
    /\ ~RunGuard(proc[p].rfStatus)
    /\ proc' = [proc EXCEPT ![p].pc = "done", ![p].resp = 400]
    /\ UNCHANGED << db, pis, nreq, clock, overlap >>
    /\ polled' = NoResponse

\* flow.executionStatus = 'running'; flow.executionResults = {}; await flow.save();
\* then executeFlow(flow.id, req.user.id) is started and 200 is sent.
RunFlowAccept(p) ==
    /\ proc[p].pc = "rf_found"
    /\ RunGuard(proc[p].rfStatus)
    /\ db' = [db EXCEPT !.executionStatus = "running", !.executionResults = EmptyMap]
    /\ proc' = [proc EXCEPT ![p].pc = "ef_find", ![p].resp = 200, ![p].accepted = TRUE]
    /\ UNCHANGED << pis, nreq, clock, overlap >>
    /\ polled' = NoResponse

\* ---------------------------------------------------------- executeFlow
\* Flow.findOne({ where: { id: flowId, userId } }) and User.findByPk(userId)
ExecFind(p) ==
    /\ proc[p].pc = "ef_find"
    /\ IF db.userId = proc[p].user
       THEN proc' = [proc EXCEPT ![p].pc = "ef_init",
                        ![p].flow = [userId |-> db.userId,
                                     executionStatus |-> db.executionStatus,
                                     executionResults |-> db.executionResults,
                                     lastExecuted |-> db.lastExecuted,
                                     nodes |-> db.graph.nodes, edges |-> db.graph.edges]]
       ELSE proc' = [proc EXCEPT ![p].pc = "ef_catch",
                        ![p].err = "Flow not found or unauthorized"]
    /\ UNCHANGED << db, pis, nreq, clock, overlap >>
    /\ polled' = NoResponse

\* flow.executionStatus = 'running'; flow.lastExecuted = new Date();
\* flow.executionResults = {}; await flow.save();
ExecInit(p) ==
    /\ proc[p].pc = "ef_init"
    /\ clock' = clock + 1
    /\ proc' = [proc EXCEPT ![p].pc = "ef_start",
                   ![p].flow.executionStatus = "running",
                   ![p].flow.lastExecuted = clock + 1,
                   ![p].flow.executionResults = EmptyMap]
    /\ db' = [db EXCEPT !.executionStatus = "running", !.lastExecuted = clock + 1,
                        !.executionResults = EmptyMap]
    /\ UNCHANGED << pis, nreq, overlap >>
    /\ polled' = NoResponse

\* const startNode = flow.nodes.find(...); if (!startNode) throw;
\* await executeNode(flow, startNode, null)
ExecStart(p) ==
    /\ proc[p].pc = "ef_start"
    /\ LET s == FindStart(proc[p].flow.nodes) IN
       IF s = 0
       THEN proc' = [proc EXCEPT ![p].pc = "ef_catch",
                        ![p].err = "No start node found in the flow"]
       ELSE proc' = [proc EXCEPT ![p].pc = "walk", ![p].stack = << Frame(s, 0) >>]
    /\ UNCHANGED << db, pis, nreq, clock, overlap >>
    /\ polled' = NoResponse

\* The status the run ends with when the walk returned.
SuccessStatus == "success"
\* flow.executionStatus = 'success'; await flow.save(); return flow
ExecSuccess(p) ==
    /\ proc[p].pc = "ef_ok"
    /\ proc' = [proc EXCEPT ![p].pc = "done", ![p].flow.executionStatus = SuccessStatus,
                   ![p].settled = "resolved",
                   ![p].end = [status |-> SuccessStatus,
                               results |-> proc[p].flow.executionResults]]
    /\ db' = [db EXCEPT !.executionStatus = SuccessStatus]
    /\ UNCHANGED << pis, nreq, clock, overlap >>
    /\ polled' = NoResponse

\* The results the catch of executeFlow stores: { error: error.message }
CatchResults(results, msg) == MapSet(EmptyMap, "error", msg)
\* catch: const flow = await Flow.findOne({ where: { id: flowId } });
\* flow.executionStatus = 'error'; flow.executionResults = {...}; save; throw error
ExecCatch(p) ==
    /\ proc[p].pc = "ef_catch"
    /\ db' = [db EXCEPT !.executionStatus = "error",
                        !.executionResults = CatchResults(db.executionResults, proc[p].err)]
    /\ proc' = [proc EXCEPT ![p].pc = "done", ![p].settled = "rejected",
                   ![p].end = [status |-> "error", results |-> db'.executionResults]]
    /\ UNCHANGED << pis, nreq, clock, overlap >>
    /\ polled' = NoResponse

\* --------------------------------------------------------- remote host
\* ssh.dispose()
Dispose(ss, s) == [ss EXCEPT ![s].disposed = @ + 1]
\* What ssh.execCommand can do: exit code 0, a nonzero exit code, or a
\* rejected promise (channel dropped; always so on a disposed connection).
ExecOutcomes(ss, s) == IF ss[s].disposed > 0 THEN {"drop"} ELSE {"exit0", "exit1", "drop"}

\* executeCommand(ssh, command) with the remote outcome o: the result it returns.
ExecuteCommand(ssh, command, o) ==
    IF command = "" THEN [success |-> FALSE, error |-> "Command cannot be empty"]
    ELSE IF ssh = 0 THEN [success |-> FALSE, error |-> "TypeError"]
    ELSE IF o = "drop" THEN [success |-> FALSE, error |-> "Channel dropped"]
    ELSE [success |-> (o = "exit0"), stdout |-> "out", code |-> IF o = "exit0" THEN 0 ELSE 1]
\* Whether executeCommand reaches ssh.execCommand.
CommandIssued(ssh, command) == command # "" /\ ssh # 0

\* controlGPIO(ssh, pin, state) with the remote outcome o.
ControlGPIO(ssh, o) ==
    IF o = "drop" THEN [success |-> FALSE, error |-> "Channel dropped"]
    ELSE [success |-> (o = "exit0"), stdout |-> "out"]

\* The command evaluateCondition executes: node.data.command, or the test -f /
\* python3 command it builds itself.
ConditionCommand(node) == IF node.conditionType = "command" THEN node.command ELSE "test"
\* evaluateCondition(flow, node, ssh): the remote outcome o, and m the result
\* of comparing the command's stdout with the expected value.
EvaluateCondition(node, ssh, o, m) ==
    LET r == ExecuteCommand(ssh, ConditionCommand(node), o)
        failed == [success |-> FALSE, error |-> "Condition evaluation failed"]
    IN  IF node.conditionType = "command"
        THEN IF ~r.success THEN failed
             ELSE [success |-> TRUE, conditionMet |-> m]
        ELSE IF node.conditionType \in {"fileExists", "gpio"}
        THEN IF "stdout" \in DOMAIN r THEN [success |-> TRUE, conditionMet |-> m]
             ELSE failed
        ELSE [success |-> TRUE, conditionMet |-> FALSE]

\* parseInt(node.data.iterations) || 1
LoopCount(node) == IF node.iterations = 0 THEN 1 ELSE node.iterations
\* return { success: true, message: `Loop completed ${results.length} iterations` }
LoopResult(cnt) == [success |-> TRUE, message |-> "Loop completed", iterations |-> cnt]

EdgesFromReversed(edges, id) ==
    LET es == SelectSeq(edges, LAMBDA e : e.source = id)
    IN [i \in 1..Len(es) |-> es[Len(es) + 1 - i]]
\* flow.edges.filter(edge => edge.source === node.id)
EdgesFrom(edges, id) == SelectSeq(edges, LAMBDA e : e.source = id)
\* The first edge of es with the given sourceHandle, as a list of at most one.
FirstWithHandle(es, h) ==
    IF \E i \in 1..Len(es) : es[i].sourceHandle = h
    THEN << es[CHOOSE i \in 1..Len(es) : es[i].sourceHandle = h
                  /\ \A j \in 1..(i-1) : es[j].sourceHandle # h] >>
    ELSE << >>
OutgoingAll(flow, node, res) == EdgesFrom(flow.edges, node.id)
\* The edges executeNode follows after a node with result res.
Outgoing(flow, node, res) ==
    LET es == EdgesFrom(flow.edges, node.id) IN
    IF node.type = NODE_TYPES.CONDITIONAL_PATH
    THEN FirstWithHandle(es, IF res.conditionMet THEN "true" ELSE "false")
    ELSE es

StopHereOnFailureOnly(cont, res) == ~res.success
\* if (!shouldContinue || !result.success) return result
StopHere(cont, res) == ~cont \/ ~res.success

\* ---------------------------------------------------------- executeNode
Walking(p, pc) == proc[p].pc = "walk" /\ Top(proc[p]).pc = pc
TopType(p) == NodeOf(proc[p]).type

\* flow.executionResults.set(`${node.id}_status`, 'running'); await flow.save()
NodeBegin(p) ==
    /\ Walking(p, "begin")
    /\ LET P == proc[p]
           r == MapSet(P.flow.executionResults, StatusKey(NodeOf(P).id), "running")
       IN /\ proc' = [proc EXCEPT ![p].flow.executionResults = r,
                         ![p].stack = SetTop(P.stack, [Top(P) EXCEPT !.pc = "exec"]),
                         ![p].executed = Append(@, NodeOf(P).id)]
          /\ db' = [db EXCEPT !.executionResults = r]
    /\ UNCHANGED << pis, nreq, clock, overlap >>
    /\ polled' = NoResponse

\* The cases of the switch that involve the remote host or the walk itself.
RemoteTypes == {NODE_TYPES.CONNECT_RASPBERRY_PI, NODE_TYPES.RUN_COMMAND, NODE_TYPES.GPIO,
                NODE_TYPES.LOOP, NODE_TYPES.CONDITIONAL_PATH}
SimpleResult(type) ==
    IF type = NODE_TYPES.START THEN [success |-> TRUE, message |-> "Flow started"]
    ELSE IF type = NODE_TYPES.END THEN [success |-> TRUE, message |-> "Flow ended"]
    ELSE IF type = NODE_TYPES.TEXT_MESSAGE THEN [success |-> TRUE, message |-> "Message sent"]
    ELSE [success |-> FALSE, message |-> "Unknown node type"]

\* case START / END / TEXT_MESSAGE / default
NodeSimple(p) ==
    /\ Walking(p, "exec")
    /\ TopType(p) \notin RemoteTypes
    /\ proc' = [proc EXCEPT ![p].stack = SetTop(@, [Top(proc[p]) EXCEPT
                       !.pc = "save", !.res = SimpleResult(TopType(p)),
                       !.cont = (TopType(p) # NODE_TYPES.END)])]
    /\ UNCHANGED << db, pis, nreq, clock, overlap >>
    /\ polled' = NoResponse

PiAuthorizedAny(ps, piId, flowUser) == piId \in DOMAIN ps
\* if (!pi || pi.user.toString() !== flow.user.toString()) throw
PiAuthorized(ps, piId, flowUser) == piId \in DOMAIN ps /\ ps[piId].userId = flowUser

\* case CONNECT_RASPBERRY_PI: dispose the existing connection, then connectToPi.
\* ok is whether ssh.connect resolves.
NodeConnect(p, ok) ==
    /\ Walking(p, "exec")
    /\ TopType(p) = NODE_TYPES.CONNECT_RASPBERRY_PI
    /\ LET P == proc[p]
           f == Top(P)
           node == NodeOf(P)
           ss == IF f.newSsh # 0 THEN Dispose(P.sessions, f.newSsh) ELSE P.sessions
       IN IF node.piId # "" /\ ~PiAuthorized(pis, node.piId, P.flow.userId)
          THEN /\ proc' = [proc EXCEPT ![p].sessions = ss, ![p].raised = TRUE,
                              ![p].stack = SetTop(@, [f EXCEPT !.pc = "catch",
                                  !.err = "Connection failed: Raspberry Pi not found or unauthorized"])]
               /\ UNCHANGED pis
          ELSE IF ~ok
          THEN /\ proc' = [proc EXCEPT ![p].sessions = ss, ![p].raised = TRUE,
                              ![p].stack = SetTop(@, [f EXCEPT !.pc = "catch",
                                  !.err = "Connection failed"])]
               /\ UNCHANGED pis
          ELSE /\ proc' = [proc EXCEPT ![p].sessions = Append(ss, [disposed |-> 0]),
                              ![p].stack = SetTop(@, [f EXCEPT !.pc = "save",
                                  !.newSsh = Len(ss) + 1,
                                  !.res = [success |-> TRUE,
                                           message |-> "Connected to Raspberry Pi"]])]
               /\ pis' = IF node.piId # "" THEN [pis EXCEPT ![node.piId].status = "online"]
                         ELSE pis
    /\ UNCHANGED << db, nreq, clock, overlap >>
    /\ polled' = NoResponse

\* case RUN_COMMAND and case GPIO
NodeCommand(p, o) ==
    /\ Walking(p, "exec")
    /\ TopType(p) \in {NODE_TYPES.RUN_COMMAND, NODE_TYPES.GPIO}
    /\ LET P == proc[p]
           f == Top(P)
           node == NodeOf(P)
           issued == IF node.type = NODE_TYPES.GPIO THEN TRUE
                     ELSE CommandIssued(f.newSsh, node.command)
       IN IF f.newSsh = 0
          THEN /\ o = "none"
               /\ proc' = [proc EXCEPT ![p].raised = TRUE,
                              ![p].stack = SetTop(@, [f EXCEPT !.pc = "catch",
                                  !.err = "No active SSH connection"])]
          ELSE /\ o \in (IF issued THEN ExecOutcomes(P.sessions, f.newSsh) ELSE {"none"})
               /\ proc' = [proc EXCEPT
                              ![p].remoteCalls = IF issued THEN @ + 1 ELSE @,
                              ![p].stack = SetTop(@, [f EXCEPT !.pc = "save",
                                  !.called = issued, !.remote = o,
                                  !.res = IF node.type = NODE_TYPES.GPIO
                                          THEN ControlGPIO(f.newSsh, o)
                                          ELSE ExecuteCommand(f.newSsh, node.command, o)])]
    /\ UNCHANGED << db, pis, nreq, clock, overlap >>
    /\ polled' = NoResponse

\* case CONDITIONAL_PATH: result = await evaluateCondition(flow, node, newSshConnection)
NodeCondition(p, o, m) ==
    /\ Walking(p, "exec")
    /\ TopType(p) = NODE_TYPES.CONDITIONAL_PATH
    /\ LET P == proc[p]
           f == Top(P)
           node == NodeOf(P)
           issued == node.conditionType \in {"command", "fileExists", "gpio"}
                     /\ CommandIssued(f.newSsh, ConditionCommand(node))
       IN /\ o \in (IF issued THEN ExecOutcomes(P.sessions, f.newSsh) ELSE {"none"})
          /\ m \in (IF issued /\ o # "drop" THEN BOOLEAN ELSE {FALSE})
          /\ proc' = [proc EXCEPT
                         ![p].remoteCalls = IF issued THEN @ + 1 ELSE @,
                         ![p].stack = SetTop(@, [f EXCEPT !.pc = "save",
                             !.called = issued, !.remote = o,
                             !.res = EvaluateCondition(node, f.newSsh, o, m)])]
    /\ UNCHANGED << db, pis, nreq, clock, overlap >>
    /\ polled' = NoResponse

\* case LOOP: executeLoop up to the for statement.
NodeLoopEnter(p) ==
    /\ Walking(p, "exec")
    /\ TopType(p) = NODE_TYPES.LOOP
    /\ LET P == proc[p]
           f == Top(P)
           es == EdgesFrom(P.flow.edges, NodeOf(P).id)
           target == IF es = << >> THEN 0 ELSE FindNode(P.flow.nodes, es[1].target)
       IN proc' = [proc EXCEPT ![p].stack = SetTop(@,
                      IF target = 0 THEN [f EXCEPT !.pc = "save", !.res = LoopResult(0)]
                      ELSE [f EXCEPT !.pc = "loop", !.body = target, !.i = 0, !.cnt = 0])]
    /\ UNCHANGED << db, pis, nreq, clock, overlap >>
    /\ polled' = NoResponse

\* for (let i = 0; i < count; i++) { ...; await executeNode(flow, targetNode, ssh) }
LoopStep(p) ==
    /\ Walking(p, "loop")
    /\ LET P == proc[p]
           f == Top(P)
       IN IF f.i < LoopCount(NodeOf(P))
          THEN proc' = [proc EXCEPT ![p].stack =
                           Append(SetTop(@, [f EXCEPT !.pc = "loopwait"]),
                                  Frame(f.body, ChildSession(P, f)))]
          ELSE proc' = [proc EXCEPT ![p].stack =
                           SetTop(@, [f EXCEPT !.pc = "save", !.res = LoopResult(f.cnt)])]
    /\ UNCHANGED << db, pis, nreq, clock, overlap >>
    /\ polled' = NoResponse

SaveResultSuccessOnly(results, id, res) ==
    IF res.success THEN MapSet(MapSet(results, id, res), StatusKey(id), "success")
    ELSE MapSet(results, StatusKey(id), "error")
\* flow.executionResults.set(node.id, result);
\* flow.executionResults.set(`${node.id}_status`, result.success ? 'success' : 'error');
SaveResult(results, id, res) ==
    MapSet(MapSet(results, id, res), StatusKey(id), IF res.success THEN "success" ELSE "error")

NodeSave(p) ==
    /\ Walking(p, "save")
    /\ LET P == proc[p]
           r == SaveResult(P.flow.executionResults, NodeOf(P).id, Top(P).res)
       IN /\ proc' = [proc EXCEPT ![p].flow.executionResults = r,
                         ![p].stack = SetTop(P.stack, [Top(P) EXCEPT !.pc = "after"]),
                         ![p].outcomes = MapSet(@, NodeOf(P).id, Top(P).res)]
          /\ db' = [db EXCEPT !.executionResults = r]
    /\ UNCHANGED << pis, nreq, clock, overlap >>
    /\ polled' = NoResponse

\* A lookup that skips a node the run has already executed.
WalkTargetUnvisited(P, id) ==
    IF \E i \in 1..Len(P.executed) : P.executed[i] = id THEN 0
    ELSE FindNode(P.flow.nodes, id)
\* const nextNode = flow.nodes.find(n => n.id === edge.target): the lookup is by
\* id alone, whatever the run has executed so far.
WalkTarget(P, id) == FindNode(P.flow.nodes, id)

\* for (const edge of edges) { const nextNode = ...; if (nextNode) await executeNode(...) }
\* The nesting of executeNode calls is followed up to MaxDepth activations.
NodeFollow(p) ==
    /\ Walking(p, "after")
    /\ Len(proc[p].stack) < MaxDepth
    /\ LET P == proc[p]
           f == Top(P)
           es == Outgoing(P.flow, NodeOf(P), f.res)
       IN /\ ~StopHere(f.cont, f.res)
          /\ f.ei <= Len(es)
          /\ LET target == WalkTarget(P, es[f.ei].target) IN
             IF target = 0
             THEN proc' = [proc EXCEPT ![p].stack = SetTop(@, [f EXCEPT !.ei = @ + 1])]
             ELSE proc' = [proc EXCEPT ![p].stack =
                              Append(SetTop(@, [f EXCEPT !.pc = "wait"]),
                                     Frame(target, ChildSession(P, f)))]
    /\ UNCHANGED << db, pis, nreq, clock, overlap >>
    /\ polled' = NoResponse

LoopStopsNever(r, lnode) == FALSE
\* if (!result.success && node.data.stopOnError) break
LoopStops(r, lnode) == ~r.success /\ lnode.stopOnError

ReturnToNever(P, r) == P
\* The caller's continuation when executeNode returns r: the edge loop of the
\* parent executeNode, the body of the for statement of executeLoop, or
\* executeFlow.
ReturnTo(P, r) ==
    LET st == Pop(P.stack) IN
    IF st = << >> THEN [P EXCEPT !.stack = st, !.pc = "ef_ok"]
    ELSE LET par == st[Len(st)] IN
         IF par.pc = "wait"
         THEN [P EXCEPT !.stack = SetTop(st, [par EXCEPT !.pc = "after", !.ei = @ + 1])]
         ELSE LET lnode == P.flow.nodes[par.n]
                  rs == MapSet(P.flow.executionResults, IterationKey(lnode.id, par.i),
                               [iteration |-> par.i + 1, nodeId |-> P.flow.nodes[par.body].id,
                                result |-> r])
              IN [P EXCEPT !.flow.executionResults = rs,
                           !.stack = SetTop(st,
                               IF LoopStops(r, lnode)
                               THEN [par EXCEPT !.cnt = @ + 1, !.pc = "save",
                                                !.res = LoopResult(par.cnt + 1)]
                               ELSE [par EXCEPT !.cnt = @ + 1, !.i = @ + 1, !.pc = "loop"])]

\* return result
NodeReturn(p) ==
    /\ Walking(p, "after")
    /\ LET P == proc[p]
           f == Top(P)
           inLoop == Len(P.stack) > 1 /\ P.stack[Len(P.stack) - 1].pc = "loopwait"
       IN /\ IF StopHere(f.cont, f.res) THEN TRUE
             ELSE f.ei > Len(Outgoing(P.flow, NodeOf(P), f.res))
          /\ proc' = [proc EXCEPT ![p] = ReturnTo(P, f.res)]
          /\ db' = IF inLoop
                   THEN [db EXCEPT !.executionResults = ReturnTo(P, f.res).flow.executionResults]
                   ELSE db
    /\ UNCHANGED << pis, nreq, clock, overlap >>
    /\ polled' = NoResponse

\* A throw that unwinds straight to the catch of executeFlow, passing over the
\* catch blocks of the enclosing executeNode and executeLoop calls.
ThrowToTop(P, msg) == [P EXCEPT !.stack = << >>, !.pc = "ef_catch", !.err = msg]

\* The caller's continuation when executeNode throws: the catch of the parent
\* executeNode, the catch of executeLoop, or the catch of executeFlow.
ThrowTo(P, msg) ==
    LET st == Pop(P.stack) IN
    IF st = << >> THEN [P EXCEPT !.stack = st, !.pc = "ef_catch", !.err = msg]
    ELSE LET par == st[Len(st)] IN
         IF par.pc = "wait"
         THEN [P EXCEPT !.stack = SetTop(st, [par EXCEPT !.pc = "catch", !.err = msg])]
         ELSE [P EXCEPT !.stack = SetTop(st, [par EXCEPT !.pc = "save",
                                                 !.res = [success |-> FALSE, error |-> msg]])]

\* if (sshConnection) sshConnection.dispose()  (in the catch of executeNode)
CatchDispose(ss, ssh) == IF ssh # 0 THEN Dispose(ss, ssh) ELSE ss

\* catch (error) { set(node.id, {success: false, error}); set(status, 'error');
\*                 await flow.save(); dispose; throw error }
NodeCatch(p) ==
    /\ Walking(p, "catch")
    /\ LET P == proc[p]
           f == Top(P)
           r == SaveResult(P.flow.executionResults, NodeOf(P).id,
                           [success |-> FALSE, error |-> f.err])
       IN /\ proc' = [proc EXCEPT ![p] =
                         ThrowTo([P EXCEPT !.flow.executionResults = r,
                                           !.sessions = CatchDispose(P.sessions, f.ssh)],
                                 f.err)]
          /\ db' = [db EXCEPT !.executionResults = r]
    /\ UNCHANGED << pis, nreq, clock, overlap >>
    /\ polled' = NoResponse

\* ------------------------------------------------------ other handlers
\* updateFlow: Flow.update(req.body, { where: { id, userId: req.user.id } })
UpdateFlow(u, body) ==
    /\ u = db.userId
    /\ db' = [db EXCEPT !.name = body.name, !.graph = body.graph]
    /\ UNCHANGED << pis, proc, nreq, clock, overlap >>
    /\ polled' = NoResponse

\* res.status(200).json({ flowId, executionStatus, lastExecuted,
\*                        executionResults: flow.executionResults || {} })
StatusBody(flow) == [code |-> 200, executionStatus |-> flow.executionStatus,
                     lastExecuted |-> flow.lastExecuted,
                     executionResults |-> flow.executionResults]
GetFlowStatusClearing(u) ==
    /\ polled' = IF u = db.userId THEN StatusBody(db) ELSE [code |-> 404]
    /\ db' = [db EXCEPT !.executionResults = EmptyMap]
    /\ UNCHANGED << pis, proc, nreq, clock, overlap >>
\* getFlowStatus: Flow.findOne({ where: { id, userId: req.user.id } }), 404 when
\* there is no such flow, else the status body.
GetFlowStatus(u) ==
    /\ polled' = IF u = db.userId THEN StatusBody(db) ELSE [code |-> 404]
    /\ UNCHANGED << db, pis, proc, nreq, clock, overlap >>

Next ==
    \/ \E p \in Procs, u \in Users : RunFlowFind(p, u)
    \/ \E p \in Procs, u \in Users : RunFlowNotFound(p, u)
    \/ \E p \in Procs : RunFlowReject(p)
    \/ \E p \in Procs : RunFlowAccept(p)
    \/ \E p \in Procs : ExecFind(p)
    \/ \E p \in Procs : ExecInit(p)
    \/ \E p \in Procs : ExecStart(p)
    \/ \E p \in Procs : ExecSuccess(p)
    \/ \E p \in Procs : ExecCatch(p)
    \/ \E p \in Procs : NodeBegin(p)
    \/ \E p \in Procs : NodeSimple(p)
    \/ \E p \in Procs, ok \in BOOLEAN : NodeConnect(p, ok)
    \/ \E p \in Procs, o \in {"none", "exit0", "exit1", "drop"} : NodeCommand(p, o)
    \/ \E p \in Procs, o \in {"none", "exit0", "exit1", "drop"}, m \in BOOLEAN :
          NodeCondition(p, o, m)
    \/ \E p \in Procs : NodeLoopEnter(p)
    \/ \E p \in Procs : LoopStep(p)
    \/ \E p \in Procs : NodeSave(p)
    \/ \E p \in Procs : NodeFollow(p)
    \/ \E p \in Procs : NodeReturn(p)
    \/ \E p \in Procs : NodeCatch(p)
    \/ \E u \in Users, b \in UpdateBodies : UpdateFlow(u, b)
    \/ \E u \in Users : GetFlowStatus(u)

Spec == Init /\ [][Next]_vars
SpecRace == InitRace /\ [][Next]_vars
SpecWalk == InitWalk /\ [][Next]_vars

\* The continuations of one execution: every step the event loop runs once the
\* awaited promise has resolved.
ExecStep(p) ==
    \/ ExecFind(p) \/ ExecInit(p) \/ ExecStart(p) \/ ExecSuccess(p) \/ ExecCatch(p)
    \/ NodeBegin(p) \/ NodeSimple(p) \/ NodeLoopEnter(p) \/ LoopStep(p) \/ NodeSave(p)
    \/ NodeFollow(p) \/ NodeReturn(p) \/ NodeCatch(p)
    \/ \E ok \in BOOLEAN : NodeConnect(p, ok)
    \/ \E o \in {"none", "exit0", "exit1", "drop"} : NodeCommand(p, o)
    \/ \E o \in {"none", "exit0", "exit1", "drop"}, m \in BOOLEAN : NodeCondition(p, o, m)
\* Every awaited call returns and its continuation is run.
FairSpec == Init /\ [][Next]_vars /\ \A p \in Procs : WF_vars(ExecStep(p))

\* executeFlow(flowId, userId) called as a function of the service module, by
\* a caller other than runFlow, for a user who does not own the flow.
ExecuteFlowCall(p, u) ==
    /\ FirstFree(p)
    /\ nreq < MaxRuns
    /\ u # db.userId
    /\ nreq' = nreq + 1
    /\ proc' = [proc EXCEPT ![p] = [IdleProc EXCEPT !.pc = "ef_find", !.rid = nreq + 1,
                                       !.user = u]]
    /\ UNCHANGED << db, pis, clock, overlap >>
    /\ polled' = NoResponse

\* The service module with executeFlow open to direct calls, next to the HTTP
\* handlers.
InitDirect == InitWith(RaceGraphs, FALSE)
NextDirect ==
    \/ Next
    \/ \E p \in Procs, u \in Users : ExecuteFlowCall(p, u)
SpecDirect == InitDirect /\ [][NextDirect]_vars

\* ------------------------------------------------ single-node endpoints
\* POST /api/nodes/run-command, POST /api/nodes/gpio, POST /api/pi/:id/test
Endpoints == {"run-command", "gpio", "test"}
EndpointPcs == {"ep_connect", "ep_exec", "ep_save", "ep_respond", "ep_catch"}

\* The handler up to the device lookup.  complete: the body carries the fields
\* other than piId (command; pin and state).  Missing fields answer 400, a
\* device that is absent or owned by another user answers 404.
EndpointRequest(p, u, kind, piId, complete) ==
    /\ FirstFree(p)
    /\ nreq < MaxRuns
    /\ nreq' = nreq + 1
    /\ LET bad == IF kind = "test" THEN FALSE ELSE IF piId = "" THEN TRUE ELSE ~complete
           found == IF piId \in DOMAIN pis THEN pis[piId].userId = u ELSE FALSE
           code == IF bad THEN 400 ELSE IF ~found THEN 404 ELSE 0
       IN proc' = [proc EXCEPT ![p] =
                      [IdleProc EXCEPT !.rid = nreq + 1, !.user = u, !.endpoint = kind,
                                       !.pi = piId, !.resp = code,
                                       !.pc = IF code = 0 THEN "ep_connect" ELSE "done"]]
    /\ UNCHANGED << db, pis, clock, overlap >>
    /\ polled' = NoResponse

\* await ssh.connect(sshConfig): resolves (ok) or rejects into the catch.
EndpointConnect(p, ok) ==
    /\ proc[p].pc = "ep_connect"
    /\ proc' = IF ok
               THEN [proc EXCEPT ![p].pc = "ep_exec",
                                 ![p].sessions = Append(@, [disposed |-> 0])]
               ELSE [proc EXCEPT ![p].pc = "ep_catch", ![p].err = "connect"]
    /\ UNCHANGED << db, pis, nreq, clock, overlap >>
    /\ polled' = NoResponse

\* const result = await ssh.execCommand(...): any exit code resolves, a dropped
\* channel rejects into the catch.
EndpointExec(p, o) ==
    /\ proc[p].pc = "ep_exec"
    /\ o \in ExecOutcomes(proc[p].sessions, Len(proc[p].sessions))
    /\ proc' = IF o = "drop"
               THEN [proc EXCEPT ![p].pc = "ep_catch", ![p].err = "exec",
                                 ![p].remoteCalls = @ + 1]
               ELSE [proc EXCEPT ![p].pc = "ep_save", ![p].remoteCalls = @ + 1]
    /\ UNCHANGED << db, pis, nreq, clock, overlap >>
    /\ polled' = NoResponse

\* pi.status = 'online'; pi.lastConnection = new Date(); await pi.save()
EndpointSave(p) ==
    /\ proc[p].pc = "ep_save"
    /\ pis' = [pis EXCEPT ![proc[p].pi].status = "online"]
    /\ proc' = [proc EXCEPT ![p].pc = "ep_respond"]
    /\ UNCHANGED << db, nreq, clock, overlap >>
    /\ polled' = NoResponse

\* ssh.dispose(); res.status(200).json(...)
EndpointRespond(p) ==
    /\ proc[p].pc = "ep_respond"
    /\ proc' = [proc EXCEPT ![p].pc = "done", ![p].resp = 200,
                            ![p].sessions = Dispose(@, Len(@))]
    /\ UNCHANGED << db, pis, nreq, clock, overlap >>
    /\ polled' = NoResponse

\* catch (error) { pi.status = 'offline'; await pi.save();
\*                 res.status(400).json(...) }
EndpointCatch(p) ==
    /\ proc[p].pc = "ep_catch"
    /\ pis' = [pis EXCEPT ![proc[p].pi].status = "offline"]
    /\ proc' = [proc EXCEPT ![p].pc = "done", ![p].resp = 400]
    /\ UNCHANGED << db, nreq, clock, overlap >>
    /\ polled' = NoResponse

\* The single-node endpoints on their own; their handlers interleave at every
\* await.
InitNodes == InitWith({GraphA}, TRUE)
NextNodes ==
    \/ \E p \in Procs, u \in Users, kind \in Endpoints, piId \in {"", "d1", "d2"},
          complete \in BOOLEAN : EndpointRequest(p, u, kind, piId, complete)
    \/ \E p \in Procs, ok \in BOOLEAN : EndpointConnect(p, ok)
    \/ \E p \in Procs, o \in {"exit0", "exit1", "drop"} : EndpointExec(p, o)
    \/ \E p \in Procs : EndpointSave(p)
    \/ \E p \in Procs : EndpointRespond(p)
    \/ \E p \in Procs : EndpointCatch(p)
SpecNodes == InitNodes /\ [][NextNodes]_vars

TypeOK ==
    /\ db.executionStatus \in {"idle", "running", "success", "error"}
    /\ nreq \in 0..MaxRuns
    /\ \A p \in Procs :
          proc[p].pc \in {"idle", "rf_found", "done"} \cup ExecPcs \cup EndpointPcs
    /\ \A d \in DOMAIN pis : pis[d].status \in {"unknown", "online", "offline"}

\* ------------------------------------------------------------- properties
Ended(p) == proc[p].end.status # ""
Opens(p) == Len(proc[p].sessions)
RECURSIVE ClosesUpTo(_, _)
ClosesUpTo(ss, n) == IF n = 0 THEN 0 ELSE ClosesUpTo(ss, n - 1) + ss[n].disposed
Closes(p) == ClosesUpTo(proc[p].sessions, Len(proc[p].sessions))

\* C1: when two run requests for the flow are handled concurrently, at most one
\* execution of the flow is active in any reachable state.
C1_AtMostOneExecution == Cardinality({p \in Procs : Executing(p)}) <= 1

\* C2: a run request whose handler read the status Running is rejected with an
\* error (400), is never accepted, executes no node, and its handler leaves the
\* stored status, results and lastExecuted as they were.
C2_RunningRejected ==
    /\ [](\A p \in Procs : proc[p].rfStatus = "running" =>
              ~proc[p].accepted /\ proc[p].executed = << >> /\ proc[p].resp \in {0, 400})
    /\ [][\A p \in Procs :
            (proc[p].pc = "rf_found" /\ proc[p].rfStatus = "running" /\ proc'[p] # proc[p]) =>
                /\ proc'[p].pc = "done" /\ proc'[p].resp = 400
                /\ db' = db]_vars
C2_Witness ==
    \E p \in Procs : proc[p].pc = "done" /\ proc[p].resp = 400 /\ proc[p].rfStatus = "running"

\* C3: when a run has reached its terminal status, every session it opened has
\* been closed and the number of opens equals the number of closes.
C3_OpensEqualCloses ==
    \A p \in Procs : Ended(p) =>
        /\ Opens(p) = Closes(p)
        /\ \A i \in 1..Len(proc[p].sessions) : proc[p].sessions[i].disposed >= 1

\* C4: no session is closed more than once.
C4_NoDoubleClose ==
    \A p \in Procs : \A i \in 1..Len(proc[p].sessions) : proc[p].sessions[i].disposed <= 1

\* C5: Scenario A, Start -> RunCommand -> End with no connect node: the run
\* ends with status Success, the RunCommand outcome is recorded with
\* success false, and no outcome is recorded for End.
C5_ScenarioA ==
    \A p \in Procs :
        (Ended(p) /\ proc[p].flow.nodes = GraphA.nodes /\ proc[p].flow.edges = GraphA.edges) =>
            /\ proc[p].end.status = "success"
            /\ Has(proc[p].end.results, "r") /\ ~proc[p].end.results["r"].success
            /\ ~Has(proc[p].end.results, "e")

\* C6: a run whose walk started and in which no node handler raised ends with
\* status Success, and the outcome of every node that returned success false
\* is in the results when the run ends.
C6_ReturnedFailureKeepsSuccess ==
    \A p \in Procs :
        (Ended(p) /\ proc[p].executed # << >> /\ ~proc[p].raised) =>
            /\ proc[p].end.status = "success"
            /\ \A id \in DOMAIN proc[p].outcomes :
                  ~proc[p].outcomes[id].success =>
                      /\ Has(proc[p].end.results, id)
                      /\ proc[p].end.results[id] = proc[p].outcomes[id]
C6_Witness ==
    \E p \in Procs :
        /\ Ended(p) /\ ~proc[p].raised
        /\ \E id \in DOMAIN proc[p].outcomes :
              /\ ~proc[p].outcomes[id].success
              /\ "code" \in DOMAIN proc[p].outcomes[id]

\* C7: a RunCommand node executed with no session issues no remote command and
\* its failure is returned as an outcome with success false and an error, not
\* raised.
C7_NoSessionReturned ==
    \A p \in Procs :
        (proc[p].pc = "walk" /\ NodeOf(proc[p]).type = NODE_TYPES.RUN_COMMAND
            /\ Top(proc[p]).ssh = 0 /\ Top(proc[p]).pc \notin {"begin", "exec"}) =>
        /\ ~Top(proc[p]).called
        /\ Top(proc[p]).pc # "catch"
        /\ ~Top(proc[p]).res.success /\ "error" \in DOMAIN Top(proc[p]).res

\* The precondition of C8: exactly one Start node and no cycle.
Targets(edges, S) == {edges[i].target : i \in {j \in 1..Len(edges) : edges[j].source \in S}}
RECURSIVE ReachFrom(_, _, _)
ReachFrom(edges, S, k) ==
    IF k = 0 THEN S ELSE ReachFrom(edges, S \cup Targets(edges, S), k - 1)
Acyclic(flow) ==
    \A i \in 1..Len(flow.nodes) :
        flow.nodes[i].id \notin
            ReachFrom(flow.edges, Targets(flow.edges, {flow.nodes[i].id}), Len(flow.nodes))
OneStart(flow) ==
    Cardinality({i \in 1..Len(flow.nodes) : flow.nodes[i].type = NODE_TYPES.START}) = 1
WellFormed(flow) == OneStart(flow) /\ Acyclic(flow)
Walked(p) == proc[p].pc \in {"ef_start", "walk", "ef_ok", "ef_catch"} /\ WellFormed(proc[p].flow)
RunOver(p) == proc[p].pc = "done" /\ proc[p].end.status \in {"success", "error"}

\* C8: an accepted run of a graph with exactly one Start node and no cycle
\* eventually ends, with Success or with Error.
C8_RunTerminates == \A p \in Procs : Walked(p) ~> RunOver(p)
C8_Witness ==
    \E p \in Procs :
        /\ RunOver(p) /\ WellFormed(proc[p].flow)
        /\ Has(proc[p].end.results, IterationKey("l", MaxIter - 1))

\* C9: after a run has ended, with Success or with Error, the outcome and the
\* status tag of every node executed during the run are in the results.
C9_OutcomesKept ==
    \A p \in Procs : Ended(p) =>
        \A i \in 1..Len(proc[p].executed) :
            /\ Has(proc[p].end.results, proc[p].executed[i])
            /\ Has(proc[p].end.results, StatusKey(proc[p].executed[i]))

\* C10: while the stored status is not Running, the only step that changes the
\* stored status or results is a run start (status becomes Running and the
\* results become empty); in particular an update of the definition changes
\* neither.
C10_NoWriteOutsideRun ==
    [][(db.executionStatus # "running"
          /\ (db'.executionStatus # db.executionStatus
                \/ db'.executionResults # db.executionResults)) =>
       (db'.executionStatus = "running" /\ db'.executionResults = EmptyMap)]_vars

\* C11: a status read changes no stored state, and the status, last-run
\* timestamp and results it returns are the stored ones, so any number of reads
\* after a completed run return the same data.
C11_StatusReadPure ==
    /\ [](polled.code = 200 =>
            /\ polled.executionStatus = db.executionStatus
            /\ polled.lastExecuted = db.lastExecuted
            /\ polled.executionResults = db.executionResults)
    /\ [][polled'.code # 0 => (db' = db /\ pis' = pis /\ proc' = proc)]_vars
C11_Witness ==
    /\ polled.code = 200
    /\ polled.executionStatus \in {"success", "error"}
    /\ polled.executionResults # EmptyMap
    /\ \A p \in Procs : Free(p)

\* The sourceHandle of the edges of the evaluated outcome.
BranchLabel(conditionMet) == IF conditionMet THEN "true" ELSE "false"
HasLabel(flow, id, h) ==
    \E i \in 1..Len(flow.edges) : flow.edges[i].source = id /\ flow.edges[i].sourceHandle = h

\* C12: a successor walked from a ConditionalBranch node is the target of an
\* outgoing edge labelled with the evaluated outcome; when the node evaluated
\* successfully and no outgoing edge carries that label, its execution returns
\* with no successor walked, nothing raised and its success outcome kept.
C12_BranchFollowsLabel ==
    /\ [](\A p \in Procs : \A i \in 1..(Len(proc[p].stack) - 1) :
            LET f == proc[p].stack[i]
                node == proc[p].flow.nodes[f.n]
                child == proc[p].flow.nodes[proc[p].stack[i + 1].n]
            IN (node.type = NODE_TYPES.CONDITIONAL_PATH /\ f.pc = "wait") =>
                  /\ f.res.success
                  /\ \E j \in 1..Len(proc[p].flow.edges) :
                        /\ proc[p].flow.edges[j].source = node.id
                        /\ proc[p].flow.edges[j].target = child.id
                        /\ proc[p].flow.edges[j].sourceHandle = BranchLabel(f.res.conditionMet))
    /\ [][\A p \in Procs :
            (/\ Walking(p, "after")
             /\ TopType(p) = NODE_TYPES.CONDITIONAL_PATH
             /\ Top(proc[p]).res.success
             /\ ~HasLabel(proc[p].flow, NodeOf(proc[p]).id,
                          BranchLabel(Top(proc[p]).res.conditionMet))
             /\ proc'[p] # proc[p]) =>
                /\ Len(proc'[p].stack) = Len(proc[p].stack) - 1
                /\ proc'[p].pc \in {"walk", "ef_ok"}
                /\ proc'[p].pc = "walk" => Top(proc'[p]).pc # "catch"
                /\ ~proc'[p].raised
                /\ proc'[p].flow.executionResults[NodeOf(proc[p]).id] = Top(proc[p]).res]_vars
C12_Witness ==
    \E p \in Procs :
        /\ Ended(p) /\ proc[p].end.status = "success"
        /\ proc[p].flow.edges = GraphK1.edges
        /\ proc[p].executed = << "s", "c", "k" >>
        /\ proc[p].end.results["k"].success /\ ~proc[p].end.results["k"].conditionMet

\* C13: Scenario C.  When a Loop node with stopOnError has finished and the
\* body returned success false on iteration k, iterations 1..k-1 are recorded
\* as success, iteration k as failure, the loop attempted no iteration after k,
\* and the Loop node's own outcome is success true counting k iterations.
C13_LoopStopsOnError ==
    \A p \in Procs : \A i \in 1..Len(proc[p].stack) :
        LET f == proc[p].stack[i]
            node == proc[p].flow.nodes[f.n]
            rs == proc[p].flow.executionResults
            k == f.cnt
        IN (/\ node.type = NODE_TYPES.LOOP /\ node.stopOnError
            /\ f.pc \in {"save", "after", "wait"}
            /\ k >= 1
            /\ Has(rs, IterationKey(node.id, k - 1))
            /\ ~rs[IterationKey(node.id, k - 1)].result.success) =>
               /\ \A j \in 1..(k - 1) :
                     /\ Has(rs, IterationKey(node.id, j - 1))
                     /\ rs[IterationKey(node.id, j - 1)].iteration = j
                     /\ rs[IterationKey(node.id, j - 1)].result.success
               /\ rs[IterationKey(node.id, k - 1)].iteration = k
               /\ \A j \in (k + 1)..(MaxIter + 1) : ~Has(rs, IterationKey(node.id, j - 1))
               /\ f.res.success /\ f.res.iterations = k
C13_Witness ==
    \E p \in Procs :
        /\ Walking(p, "after") /\ TopType(p) = NODE_TYPES.LOOP /\ NodeOf(proc[p]).stopOnError
        /\ Top(proc[p]).cnt = MaxIter - 1
        /\ LoopCount(NodeOf(proc[p])) = MaxIter
        /\ ~proc[p].flow.executionResults[IterationKey("l", MaxIter - 2)].result.success
        /\ "code" \in DOMAIN proc[p].flow.executionResults[IterationKey("l", MaxIter - 2)].result

\* C14: for every condition kind, when the remote command of a ConditionalBranch
\* node failed (nonzero exit code or transport error) the node's outcome is
\* success false with an error and no successor of the node is walked.
C14_ConditionFailureStops ==
    \A p \in Procs : \A i \in 1..Len(proc[p].stack) :
        LET f == proc[p].stack[i]
            node == proc[p].flow.nodes[f.n]
        IN (/\ node.type = NODE_TYPES.CONDITIONAL_PATH
            /\ f.pc \notin {"begin", "exec"}
            /\ f.remote \in {"exit1", "drop"}) =>
               /\ ~f.res.success
               /\ "error" \in DOMAIN f.res
               /\ f.pc # "wait"

\* The messages connectToPi throws.
ConnectErrors == {"Connection failed",
                  "Connection failed: Raspberry Pi not found or unauthorized"}

\* C15: a ConnectRemoteHost node that could not connect has its failure
\* recorded as its outcome with success false, its successors are not walked,
\* no exception escapes the walk and the run does not end in Error because of it.
C15_ConnectFailureReturned ==
    \A p \in Procs :
        /\ \A i \in 1..Len(proc[p].stack) :
              LET f == proc[p].stack[i]
                  node == proc[p].flow.nodes[f.n]
              IN (/\ node.type = NODE_TYPES.CONNECT_RASPBERRY_PI
                  /\ f.pc \notin {"begin", "exec"}
                  /\ f.newSsh = f.ssh) =>
                     /\ f.pc \in {"save", "after"}
                     /\ ~f.res.success
        /\ proc[p].pc \in {"ef_catch", "done"} => proc[p].err \notin ConnectErrors

Executed(p, id) == \E i \in 1..Len(proc[p].executed) : proc[p].executed[i] = id

\* C16: a validation failure halts only its own path.  In the fan-out graph
\* Start -> RunCommand (no session), Start -> TextMessage, the RunCommand
\* failure is recorded as its outcome and the target of Start's later edge is
\* still executed before the run ends.
C16_ValidationHaltsPathOnly ==
    \A p \in Procs :
        (Ended(p) /\ proc[p].flow.nodes = GraphF.nodes /\ proc[p].flow.edges = GraphF.edges) =>
            /\ Executed(p, "r")
            /\ Executed(p, "t")

C18_NoStartAborts ==
    \A p \in Procs :
        (/\ proc[p].accepted
         /\ proc[p].flow.nodes # << >>
         /\ \A i \in 1..Len(proc[p].flow.nodes) :
               proc[p].flow.nodes[i].type # NODE_TYPES.START) =>
            /\ proc[p].executed = << >>
            /\ proc[p].sessions = << >>
            /\ proc[p].pc \notin {"walk", "ef_ok"}
            /\ Ended(p) => (proc[p].end.status = "error" /\ db.executionStatus = "error")
C18_Witness ==
    \E p \in Procs :
        /\ Ended(p) /\ proc[p].flow.nodes = Graph0.nodes
        /\ proc[p].err = "No start node found in the flow"
        /\ db.executionStatus = "error"

\* C19: a run of a graph with more than one Start node is rejected as invalid:
\* no node is executed and the run ends with flow status Error.
C19_TwoStartsRejected ==
    \A p \in Procs :
        (proc[p].accepted /\ proc[p].flow.nodes # << >> /\ ~OneStart(proc[p].flow)
            /\ FindStart(proc[p].flow.nodes) # 0) =>
            /\ proc[p].executed = << >>
            /\ Ended(p) => proc[p].end.status = "error"

\* C20: the stored status changes only from Idle, Success or Error to Running
\* in the step that accepts a run, and from Running to Success or Error in the
\* step that ends a run; in particular a terminal status is never replaced by
\* the other one without an accepted run in between.
C20_StatusTransitions ==
    [][db'.executionStatus # db.executionStatus =>
         \/ /\ db.executionStatus \in {"idle", "success", "error"}
            /\ db'.executionStatus = "running"
            /\ \E p \in Procs : ~proc[p].accepted /\ proc'[p].accepted
         \/ /\ db.executionStatus = "running"
            /\ db'.executionStatus \in {"success", "error"}
            /\ \E p \in Procs : /\ proc[p].end.status = ""
                                 /\ proc'[p].end.status = db'.executionStatus]_vars

\* C21: when an exception escaped the walk, executeFlow records the error, sets
\* the flow status to Error and then completes normally: its promise resolves,
\* the exception is not raised to the caller.
C21_TopLevelSwallows ==
    \A p \in Procs :
        (Ended(p) /\ proc[p].raised) =>
            /\ proc[p].end.status = "error"
            /\ Has(proc[p].end.results, "error")
            /\ proc[p].settled = "resolved"

\* The sessions of the run of slot p that were opened and never disposed.
OpenSessions(p) == {i \in 1..Len(proc[p].sessions) : proc[p].sessions[i].disposed = 0}

\* C22: at every point of a run at most one remote session is open, also when
\* an earlier session was opened on a different branch of a fan-out node.
C22_OneLiveSession == \A p \in Procs : Cardinality(OpenSessions(p)) <= 1

\* C23: when a ConnectRemoteHost node references a stored device of the flow's
\* owner, the device is online after a successful open and offline after a
\* failed one.
C23_DeviceStatusFollowsOpen ==
    \A p \in Procs :
        (/\ proc[p].pc = "walk"
         /\ NodeOf(proc[p]).type = NODE_TYPES.CONNECT_RASPBERRY_PI
         /\ PiAuthorized(pis, NodeOf(proc[p]).piId, proc[p].flow.userId)
         /\ Top(proc[p]).pc \in {"save", "catch"}) =>
            pis[NodeOf(proc[p]).piId].status =
                IF Top(proc[p]).newSsh # Top(proc[p]).ssh THEN "online" ELSE "offline"

\* C24: the walk is depth-first and sequential in edge-list order.  While the
\* target of an outgoing edge e2 of a non-branch node is being executed, the
\* target of every earlier outgoing edge e1 of that node has been executed, and
\* every node executed in the subtree of e1's target has its outcome recorded.
C24_DepthFirstInEdgeOrder ==
    \A p \in Procs : \A i \in 1..(Len(proc[p].stack) - 1) :
        LET P == proc[p]
            f == P.stack[i]
            node == P.flow.nodes[f.n]
            child == P.flow.nodes[P.stack[i + 1].n]
            es == SelectSeq(P.flow.edges, LAMBDA x : x.source = node.id)
        IN (f.pc = "wait" /\ node.type # NODE_TYPES.CONDITIONAL_PATH) =>
              \A k \in 1..Len(es) : \A j \in 1..(k - 1) :
                  (/\ es[k].target = child.id
                   /\ es[j].target # child.id
                   /\ FindNode(P.flow.nodes, es[j].target) # 0
                   /\ \A h \in 1..(k - 1) : es[h].target # child.id) =>
                      /\ Executed(p, es[j].target)
                      /\ \A id \in ReachFrom(P.flow.edges, {es[j].target}, Len(P.flow.nodes)) :
                            Executed(p, id) => Has(P.flow.executionResults, id)
C24_Witness ==
    \E p \in Procs :
        /\ proc[p].pc = "walk" /\ Len(proc[p].stack) = 2
        /\ proc[p].flow.edges = GraphFC.edges
        /\ NodeOf(proc[p]).id = "c2"
        /\ Has(proc[p].flow.executionResults, "c") /\ Has(proc[p].flow.executionResults, "t")

\* The status tag 'running' of an execution is written before its outcome record.
TagBeforeOutcome(p) ==
    \A i \in 1..Len(proc[p].stack) :
        LET f == proc[p].stack[i]
            id == proc[p].flow.nodes[f.n].id
        IN f.pc \in {"exec", "loop", "save"} =>
              /\ Has(proc[p].flow.executionResults, StatusKey(id))
              /\ i = Len(proc[p].stack) =>
                    proc[p].flow.executionResults[StatusKey(id)] = "running"
\* An execution that called executeNode for a target of its node's outgoing
\* edges, while at one of the given pcs, has its outcome record written.
OutcomeBeforeChild(p, pcs) ==
    \A i \in 1..(Len(proc[p].stack) - 1) :
        LET f == proc[p].stack[i]
            id == proc[p].flow.nodes[f.n].id
        IN f.pc \in pcs =>
              /\ Has(proc[p].flow.executionResults, id)
              /\ Has(proc[p].flow.executionResults, StatusKey(id))

\* C25 as stated: for every execution of a node, the write of its status tag
\* 'running' precedes the write of its outcome record, and its outcome record
\* is written before the status tag of any of its successors is written.
C25_WritesOrdered ==
    \A p \in Procs : TagBeforeOutcome(p) /\ OutcomeBeforeChild(p, {"wait", "loopwait"})

\* C25 amended: the same, except that a Loop node's body, the target of its
\* outgoing edge, is executed by the iterations before the Loop node's own
\* outcome record is written.
C25_WritesOrderedOutsideLoopBody ==
    \A p \in Procs : TagBeforeOutcome(p) /\ OutcomeBeforeChild(p, {"wait"})
C25_Witness ==
    \E p \in Procs :
        /\ proc[p].pc = "walk" /\ Len(proc[p].stack) = 3
        /\ proc[p].stack[2].pc = "wait"
        /\ Top(proc[p]).pc = "save"
        /\ proc[p].flow.executionResults[StatusKey(NodeOf(proc[p]).id)] = "running"

\* C26: an execution of a node that called executeNode for a successor is not
\* an execution of an End node and its outcome has success true; the target of
\* an End node's outgoing edge is never executed through it.
C26_NoSuccessorAfterStop ==
    \A p \in Procs :
        /\ \A i \in 1..(Len(proc[p].stack) - 1) :
              LET f == proc[p].stack[i] IN
              f.pc = "wait" =>
                  /\ proc[p].flow.nodes[f.n].type # NODE_TYPES.END
                  /\ f.res.success
        /\ (proc[p].flow.nodes = GraphE.nodes /\ proc[p].flow.edges = GraphE.edges) =>
              ~Executed(p, "t")
        /\ (proc[p].flow.nodes = GraphB.nodes /\ proc[p].flow.edges = GraphB.edges
              /\ Has(proc[p].outcomes, "r") /\ ~proc[p].outcomes["r"].success) =>
              ~Executed(p, "e")
C26_Witness ==
    \E p \in Procs :
        /\ Ended(p) /\ proc[p].end.status = "success"
        /\ proc[p].flow.edges = GraphE.edges
        /\ proc[p].executed = << "s", "e" >>

\* C27: when a ConditionalBranch node has several outgoing edges carrying the
\* label of the evaluated outcome, the target of every one of them is walked:
\* in the graph with two true-labelled edges, a run that ended after the
\* condition evaluated to true has executed both targets.
C27_AllMatchingEdgesWalked ==
    \A p \in Procs :
        (/\ Ended(p)
         /\ proc[p].flow.nodes = GraphK2.nodes /\ proc[p].flow.edges = GraphK2.edges
         /\ Has(proc[p].outcomes, "k")
         /\ proc[p].outcomes["k"].success
         /\ proc[p].outcomes["k"].conditionMet) =>
            /\ Executed(p, "t")
            /\ Executed(p, "t2")

\* C28: an edge whose target id matches no node is skipped.  In the graph whose
\* Start has a dangling first edge and whose Loop has a dangling body edge,
\* nothing is recorded under the missing ids, no handler raises, the targets of
\* the remaining edges are executed, and the run ends with Success.
C28_DanglingEdgeSkipped ==
    \A p \in Procs :
        (proc[p].flow.nodes = GraphX.nodes /\ proc[p].flow.edges = GraphX.edges) =>
            /\ ~proc[p].raised
            /\ proc[p].pc # "ef_catch"
            /\ \A id \in {"zz", "yy"} :
                  /\ ~Has(proc[p].flow.executionResults, id)
                  /\ ~Has(proc[p].flow.executionResults, StatusKey(id))
            /\ Ended(p) =>
                  /\ proc[p].executed = << "s", "l", "t" >>
                  /\ proc[p].end.status = "success"
                  /\ proc[p].end.results["l"] = LoopResult(0)
C28_Witness ==
    \E p \in Procs :
        /\ Ended(p) /\ proc[p].flow.edges = GraphX.edges
        /\ Executed(p, "t") /\ proc[p].end.status = "success"

\* C29: the Loop node's own outcome is success true whatever happens inside its
\* iterations, including when the execution of a body node raises.
C29_LoopOutcomeAlwaysSuccess ==
    \A p \in Procs : \A i \in 1..Len(proc[p].stack) :
        LET f == proc[p].stack[i] IN
        (proc[p].flow.nodes[f.n].type = NODE_TYPES.LOOP /\ f.pc \in {"save", "after", "wait"}) =>
            f.res.success

\* C30: a Loop node executed with no session does not invoke its body and
\* yields a failure outcome.
C30_LoopNeedsSession ==
    \A p \in Procs : \A i \in 1..Len(proc[p].stack) :
        LET f == proc[p].stack[i] IN
        (proc[p].flow.nodes[f.n].type = NODE_TYPES.LOOP /\ f.ssh = 0) =>
            /\ f.pc \notin {"loop", "loopwait"}
            /\ f.pc \in {"save", "after", "wait"} => ~f.res.success

\* The number of executions of node id in the run of slot p.
TimesExecuted(p, id) ==
    Cardinality({i \in 1..Len(proc[p].executed) : proc[p].executed[i] = id})

\* C31: in a run where a Loop node with iterations = N is executed once and
\* every execution of its body succeeds, the body node is executed exactly N
\* times in total, each recorded under its own iteration sub-key.
C31_BodyExecutedNTimes ==
    \A p \in Procs :
        (/\ Ended(p) /\ proc[p].end.status = "success"
         /\ proc[p].flow.nodes = GraphL.nodes /\ proc[p].flow.edges = GraphL.edges
         /\ TimesExecuted(p, "l") = 1
         /\ Has(proc[p].outcomes, "r") /\ proc[p].outcomes["r"].success
         /\ \A j \in 0..(MaxIter - 1) :
               /\ Has(proc[p].end.results, IterationKey("l", j))
               /\ proc[p].end.results[IterationKey("l", j)].result.success) =>
            TimesExecuted(p, "r") = MaxIter

\* C32: when the catch of executeNode runs for a frame, it records success:
\* false with the error message and the tag 'error' for that frame's node (and
\* persists them), and rethrows to its caller: an enclosing executeNode frame,
\* whose node already had a success outcome, enters its own catch with the
\* same error; an enclosing executeLoop absorbs the error into a failure
\* result; with no enclosing frame the error reaches the catch of executeFlow.
C32_ExceptionPropagates ==
    [][\A p \in Procs :
          (Walking(p, "catch") /\ proc'[p] # proc[p]) =>
              LET P  == proc[p]
                  f  == Top(P)
                  id == NodeOf(P).id
                  Q  == proc'[p]
                  n  == Len(P.stack)
              IN /\ Q.flow.executionResults[id] = [success |-> FALSE, error |-> f.err]
                 /\ Q.flow.executionResults[StatusKey(id)] = "error"
                 /\ db'.executionResults = Q.flow.executionResults
                 /\ IF n = 1
                    THEN Q.pc = "ef_catch" /\ Q.err = f.err /\ Q.stack = << >>
                    ELSE /\ Len(Q.stack) = n - 1
                         /\ IF P.stack[n - 1].pc = "wait"
                            THEN /\ P.stack[n - 1].res.success
                                 /\ Top(Q).pc = "catch"
                                 /\ Top(Q).err = f.err
                            ELSE /\ P.stack[n - 1].pc = "loopwait"
                                 /\ Top(Q).pc = "save"
                                 /\ Top(Q).res = [success |-> FALSE, error |-> f.err]]_vars

\* An error raised two levels below Start has reached the catch of executeFlow
\* and the Start node's success outcome has been overwritten on the way.
C32_Witness ==
    \E p \in Procs :
        /\ proc[p].pc = "ef_catch"
        /\ Len(proc[p].executed) >= 3
        /\ Has(proc[p].outcomes, "s") /\ proc[p].outcomes["s"].success
        /\ Has(proc[p].flow.executionResults, "s")
        /\ proc[p].flow.executionResults["s"] = [success |-> FALSE, error |-> proc[p].err]
        /\ proc[p].flow.executionResults[StatusKey("s")] = "error"

\* The node ids of the graphs of the model.
NodeIds == UNION {{g.nodes[i].id : i \in 1..Len(g.nodes)} : g \in Graphs \cup WalkGraphs}

\* In the results map, every node tagged 'success' or 'error' has an outcome
\* record whose success flag agrees with the tag.
TagsAgree(results) ==
    \A id \in NodeIds :
        (Has(results, StatusKey(id)) /\ results[StatusKey(id)] \in {"success", "error"}) =>
            /\ Has(results, id)
            /\ results[id].success = (results[StatusKey(id)] = "success")
NoRunningTag(results) ==
    \A id \in NodeIds : Has(results, StatusKey(id)) => results[StatusKey(id)] # "running"

\* C33: in every persisted state the status tags 'success' and 'error' agree
\* with the outcome records, and in the persisted state written when a run ends
\* with Success no status tag is 'running'.
C33_TagsMatchOutcomes ==
    /\ TagsAgree(db.executionResults)
    /\ \A p \in Procs :
          (proc[p].pc = "done" /\ proc[p].end.status = SuccessStatus
           /\ db.executionStatus = SuccessStatus /\ ~ \E q \in Procs : Executing(q)) =>
              NoRunningTag(db.executionResults)

\* A run has ended with Success and the persisted map holds a node tagged
\* 'success' and a node tagged 'error', each with its outcome record.
C33_Witness ==
    \E p \in Procs :
        /\ proc[p].pc = "done" /\ proc[p].end.status = SuccessStatus
        /\ db.executionStatus = SuccessStatus
        /\ \E a, b \in NodeIds :
              /\ Has(db.executionResults, StatusKey(a))
              /\ db.executionResults[StatusKey(a)] = "success"
              /\ Has(db.executionResults, StatusKey(b))
              /\ db.executionResults[StatusKey(b)] = "error"
              /\ ~ db.executionResults[b].success

\* C34: the session a nested execution receives is the local session of the
\* activation that called it (none for the Start node's activation called by
\* executeFlow).  In the fan-out graph Start -> Connect, Start -> RunCommand
\* the RunCommand is called by Start, which has no session: although the
\* Connect succeeded earlier in the run, the RunCommand receives no session,
\* issues no remote command and raises "No active SSH connection".
C34_SessionOnlyInSubtree ==
    \A p \in Procs :
        /\ \A i \in 1..Len(proc[p].stack) :
              proc[p].stack[i].ssh = IF i = 1 THEN 0 ELSE proc[p].stack[i - 1].newSsh
        /\ (/\ proc[p].flow.nodes = GraphCR.nodes /\ proc[p].flow.edges = GraphCR.edges
            /\ proc[p].stack # << >>
            /\ NodeOf(proc[p]).id = "r") =>
               /\ Opens(p) = 1
               /\ Top(proc[p]).ssh = 0
               /\ Top(proc[p]).newSsh = 0
               /\ ~ Top(proc[p]).called
               /\ Top(proc[p]).pc \in {"begin", "exec", "catch"}
               /\ Top(proc[p]).pc = "catch" => Top(proc[p]).err = "No active SSH connection"

\* The RunCommand on Start's later edge has raised for want of a session while
\* the session opened by the Connect on the earlier edge is still open.
C34_Witness ==
    \E p \in Procs :
        /\ proc[p].flow.nodes = GraphCR.nodes /\ proc[p].flow.edges = GraphCR.edges
        /\ proc[p].stack # << >>
        /\ NodeOf(proc[p]).id = "r"
        /\ Top(proc[p]).pc = "catch"
        /\ Opens(p) = 1 /\ proc[p].sessions[1].disposed = 0
        /\ proc[p].outcomes["c"].success

IsGraph(p, g) == proc[p].flow.nodes = g.nodes /\ proc[p].flow.edges = g.edges

\* C35: on the graph Start -> text -> text2 -> text (a cycle of always
\* succeeding nodes, no End node) every activation of executeNode calls a
\* successor and waits for it: no activation returns or raises, the nodes of
\* the cycle are executed again and again, the run never ends, and the status
\* of the run and of the stored flow stays 'running'.
C35_CycleNeverEnds ==
    \A p \in Procs :
        IsGraph(p, GraphCyc) =>
            /\ ~ Ended(p)
            /\ proc[p].pc \in {"ef_init", "ef_start", "walk"}
            /\ proc[p].pc = "walk" =>
                  /\ proc[p].flow.executionStatus = "running"
                  /\ db.executionStatus = "running"
                  /\ proc[p].stack # << >>
                  /\ \A i \in 1..(Len(proc[p].stack) - 1) : proc[p].stack[i].pc = "wait"
                  /\ Top(proc[p]).pc \in {"begin", "exec", "save", "after"}
                  /\ Len(proc[p].executed) \in {Len(proc[p].stack) - 1, Len(proc[p].stack)}

\* The walk has gone round the cycle: the first node of the cycle is being
\* executed for the third time while the flow is still 'running'.
C35_Witness ==
    \E p \in Procs :
        /\ IsGraph(p, GraphCyc)
        /\ TimesExecuted(p, "t") >= 2
        /\ TimesExecuted(p, "t2") >= 2
        /\ Len(proc[p].stack) >= 5
        /\ db.executionStatus = "running"

\* C36: in the diamond Start -> Connect -> {text, text2} -> RunCommand the
\* RunCommand lies on two paths of succeeding nodes.  A run in which nothing is
\* raised executes it twice, once per path, and every other node once; right
\* after each of its executions the results map holds, under its id, the
\* outcome of that execution, so the map of the ended run holds the outcome of
\* the last one.
C36_ExecutedOncePerPath ==
    \A p \in Procs :
        IsGraph(p, GraphDm) =>
            /\ (Ended(p) /\ proc[p].end.status = SuccessStatus) =>
                  /\ TimesExecuted(p, "r") = 2
                  /\ \A id \in {"s", "c", "t", "t2"} : TimesExecuted(p, id) = 1
                  /\ proc[p].end.results["r"] = proc[p].outcomes["r"]
            /\ (proc[p].stack # << >> /\ NodeOf(proc[p]).id = "r"
                /\ Top(proc[p]).pc = "after") =>
                  /\ proc[p].flow.executionResults["r"] = Top(proc[p]).res
                  /\ db.executionResults["r"] = Top(proc[p]).res
                  /\ TimesExecuted(p, "r") \in {1, 2}

\* The second execution of the RunCommand has failed and is about to be
\* recorded, while the map still holds the success outcome of the first.
C36_Witness ==
    \E p \in Procs :
        /\ IsGraph(p, GraphDm)
        /\ proc[p].stack # << >> /\ NodeOf(proc[p]).id = "r"
        /\ TimesExecuted(p, "r") = 2
        /\ Top(proc[p]).pc = "save"
        /\ ~ Top(proc[p]).res.success
        /\ proc[p].flow.executionResults["r"].success

\* C37: no step of an execution of executeFlow called with a user id that does
\* not own the flow executes a node or changes the stored status or the stored
\* results map of the flow.
C37_NonOwnerCallLeavesFlow ==
    [][\A p \in Procs :
          (Executing(p) /\ proc[p].user # db.userId /\ proc'[p] # proc[p]) =>
              /\ proc'[p].executed = << >>
              /\ db'.executionStatus = db.executionStatus
              /\ db'.executionResults = db.executionResults]_vars

\* C38: when a single-node endpoint has sent its response, on the success path
\* or on the error path, every SSH session its handler connected has been
\* disposed.
C38_EndpointSessionsDisposed ==
    \A p \in Procs :
        (proc[p].endpoint \in Endpoints /\ proc[p].pc = "done") =>
            \A i \in 1..Len(proc[p].sessions) : proc[p].sessions[i].disposed >= 1

====
